---- MODULE Spec2Model ----
(***************************************************************************)
(* Point-cloud cutaway renderer: the streaming ingestion pipeline          *)
(* (load_point_cloud's background loader thread, the mpsc batch channel,   *)
(* and the batch/path polls of the main event loop in src/src/main.rs).    *)
(***************************************************************************)
EXTENDS Integers, Sequences, FiniteSets, TLC

(* ---------------------------------------------------------------------- *)
(* Bounds of the model                                                     *)
(* ---------------------------------------------------------------------- *)
\* largest declared point count of a file
MaxPoints == 4
\* largest value of the --num-points argument
MaxNumPoints == 3
\* BATCH_SIZE is 500_000 in the source; the model draws it from 1..MaxBatchSize
MaxBatchSize == 2
\* number of loader threads (with their channels) that can exist at one time;
\* a thread's identity is reused once the thread has ended and both ends of
\* its channel have been dropped
MaxLoaders == 2

Loaders == 1..MaxLoaders

\* A file as the las reader presents it: the header's number_of_points and the
\* number of leading records that decode (good < declared: record good+1 is
\* malformed, reader.read() yields Some(Err)).
Files == { [declared |-> d, good |-> g] : d \in 0..MaxPoints, g \in 0..MaxPoints }
ReadableFiles == { f \in Files : f.good <= f.declared }

NoFile == [declared |-> -1, good |-> -1]

\* a path Reader::from_path cannot open (missing, unreadable or not a LAS file)
UnreadableFile == [declared |-> -2, good |-> -2]

\* what the file dialog can return
PickableFiles == ReadableFiles \cup {UnreadableFile}

\* Reader::from_path(filename) is Err
OpenFails(f) == f = UnreadableFile
NoColor == <<>>

Min(a, b) == IF a < b THEN a ELSE b

(* ---------------------------------------------------------------------- *)
(* Records of the file                                                     *)
(* ---------------------------------------------------------------------- *)
\* The i-th record of a file (1-based): its x coordinate identifies it; odd
\* records carry no colour, even ones a 3 x 16-bit colour.
PointColor(i) ==
    IF i % 2 = 1 THEN NoColor
    ELSE << (i * 16384 + 255) % 65536, 65535, (256 * i) % 65536 >>

Point(i) == [x |-> i, color |-> PointColor(i)]

\* reader.read() with idx records already read: Some(Ok(point)), Some(Err(_))
\* or None
Read(file, idx) ==
    IF idx < file.good THEN [tag |-> "Ok", point |-> Point(idx + 1)]
    ELSE IF idx < file.declared THEN [tag |-> "Err", point |-> Point(0)]
    ELSE [tag |-> "None", point |-> Point(0)]

(* ---------------------------------------------------------------------- *)
(* Pure pieces of load_point_cloud and of the batch poll                   *)
(* ---------------------------------------------------------------------- *)
EffectiveTotalNoDefault(np, total) == np

\* let n = if num_points == 0 { total_points } else { num_points };
EffectiveTotal(np, total) == IF np = 0 THEN total ELSE np

BatchFullOffByOne(pp, B) == pp % B = 1 % B

\* if points_processed % BATCH_SIZE == 0
BatchFull(pp, B) == pp % B = 0

\* if points_processed > n
LimitExceeded(pp, n) == pp > n

AfterSendKeep(batch) == batch

\* batch = vec![];  after tx.send(batch)
AfterSend(batch) == <<>>

SendFront(q, b) == <<b>> \o q

\* tx.send(b) on a channel whose receiver is alive: enqueue at the tail
Send(q, b) == Append(q, b)

CanSendBounded(q) == Len(q) < 1

\* mpsc::channel() is unbounded: send never waits for room
CanSend(q) == TRUE

TryRecvNoDisconnect(q, txAlive) ==
    IF q # <<>> THEN "Ok"
    ELSE "Empty"

TryRecvDisconnectFirst(q, txAlive) ==
    IF ~txAlive THEN "Disconnected"
    ELSE IF q # <<>> THEN "Ok"
    ELSE "Empty"

\* r.try_recv(): queued messages are delivered before the disconnect is seen
TryRecv(q, txAlive) ==
    IF q # <<>> THEN "Ok"
    ELSE IF ~txAlive THEN "Disconnected"
    ELSE "Empty"

\* colour.red / 256 as u8 ... else [u8::MAX; 3];  position: x as f32
ToVertex(point) ==
    [position |-> point.x,
     colour   |-> IF point.color = NoColor THEN <<255, 255, 255>>
                  ELSE << point.color[1] \div 256, point.color[2] \div 256,
                          point.color[3] \div 256 >>]

ConvertBatchReversed(batch) ==
    [j \in 1..Len(batch) |-> ToVertex(batch[Len(batch) + 1 - j])]

\* batch.par_iter().map(..).collect(): one vertex per record, in record order
ConvertBatch(batch) == [j \in 1..Len(batch) |-> ToVertex(batch[j])]

(* ---------------------------------------------------------------------- *)
(* Rasters (image::RgbaImage) and the pointer (input.rs)                    *)
(* ---------------------------------------------------------------------- *)
Black == << 0, 0, 0, 255 >>        \* image::Rgba([0, 0, 0, 255]), outline
White == << 255, 255, 255, 0 >>    \* image::Rgba([255, 255, 255, 0]), erased
Blue  == << 0, 0, 255, 0 >>        \* image::Rgba([0, 0, 255, 0]), room and exterior
Red   == << 255, 0, 0, 0 >>        \* image::Rgba([255, 0, 0, 0]), wall and floor

Pixels(w, h) == (0 .. w - 1) \X (0 .. h - 1)

\* an image of one colour
Blank(w, h, colour) ==
    [width |-> w, height |-> h, px |-> [p \in Pixels(w, h) |-> colour]]

\* the bounds test of ImageBuffer::get_pixel / put_pixel, which panic when it
\* fails; a negative i32 cast with `as u32` is at least 2^31 and fails it
InBounds(img, x, y) == x >= 0 /\ x < img.width /\ y >= 0 /\ y < img.height

get_pixel(img, x, y) == img.px[<< x, y >>]

put_pixel(img, x, y, colour) == [img EXCEPT !.px[<< x, y >>] = colour]

\* glam::Vec2 of the pointer: NAN until the first CursorMoved
NanPos == [nan |-> TRUE, x |-> 0, y |-> 0]
Pos(x, y) == [nan |-> FALSE, x |-> x, y |-> y]

\* (v.x as i32, v.y as i32): NAN casts to 0
AsI32(v) == IF v.nan THEN << 0, 0 >> ELSE << v.x, v.y >>

\* (v.x as u32, v.y as u32): NAN and negative values cast to 0
AsU32(v) ==
    IF v.nan THEN << 0, 0 >>
    ELSE << IF v.x < 0 THEN 0 ELSE v.x, IF v.y < 0 THEN 0 ELSE v.y >>

Buttons == {"Left", "Right"}

\* MouseManager::new(); a button missing from the map reads as Released
NewMouse ==
    [state |-> [b \in Buttons |-> "Released"],
     position |-> NanPos, last_position |-> NanPos, new_frame |-> TRUE]

\* MouseManager::update
MouseUpdate(m, button, pressed) ==
    [m EXCEPT !.state[button] = IF pressed THEN "JustPressed" ELSE "JustReleased"]

\* MouseManager::update_position
MouseUpdatePosition(m, p) ==
    [m EXCEPT !.last_position = IF m.new_frame THEN m.position ELSE @,
              !.new_frame = FALSE,
              !.position = p]

\* MouseManager::on_new_frame
MouseOnNewFrame(m) ==
    [m EXCEPT !.new_frame = TRUE,
              !.state = [b \in Buttons |->
                            IF m.state[b] = "JustPressed" THEN "Pressed"
                            ELSE IF m.state[b] = "JustReleased" THEN "Released"
                            ELSE m.state[b]]]

\* MouseManager::is_pressed
is_pressed(m, button) == m.state[button] \in {"JustPressed", "Pressed"}

(* ---------------------------------------------------------------------- *)
(* line_drawing::Bresenham::new(start, end), as iterated by the callers     *)
(* ---------------------------------------------------------------------- *)
\* Octant::new
Octant(start, end) ==
    LET dx0 == end[1] - start[1]
        dy0 == end[2] - start[2]
        v4  == IF dy0 < 0 THEN 4 ELSE 0
        dx1 == IF dy0 < 0 THEN -dx0 ELSE dx0
        dy1 == IF dy0 < 0 THEN -dy0 ELSE dy0
        v2  == IF dx1 < 0 THEN 2 ELSE 0
        dx2 == IF dx1 < 0 THEN dy1 ELSE dx1
        dy2 == IF dx1 < 0 THEN -dx1 ELSE dy1
    IN  v4 + v2 + (IF dx2 < dy2 THEN 1 ELSE 0)

\* Octant::to
OctantTo(o, p) ==
    CASE o = 0 -> << p[1], p[2] >>
      [] o = 1 -> << p[2], p[1] >>
      [] o = 2 -> << p[2], -p[1] >>
      [] o = 3 -> << -p[1], p[2] >>
      [] o = 4 -> << -p[1], -p[2] >>
      [] o = 5 -> << -p[2], -p[1] >>
      [] o = 6 -> << -p[2], p[1] >>
      [] o = 7 -> << p[1], -p[2] >>

\* Octant::from
OctantFrom(o, p) ==
    CASE o = 0 -> << p[1], p[2] >>
      [] o = 1 -> << p[2], p[1] >>
      [] o = 2 -> << -p[2], p[1] >>
      [] o = 3 -> << -p[1], p[2] >>
      [] o = 4 -> << -p[1], -p[2] >>
      [] o = 5 -> << -p[2], -p[1] >>
      [] o = 6 -> << p[2], -p[1] >>
      [] o = 7 -> << p[1], -p[2] >>

\* Iterator::next until None: the points yielded, first to last
RECURSIVE BresenhamWalk(_, _, _, _, _, _, _)
BresenhamWalk(o, point, error, delta_x, delta_y, end_x, out) ==
    IF point[1] > end_x THEN out
    ELSE LET up == error >= 0
         IN  BresenhamWalk(o,
                           << point[1] + 1, IF up THEN point[2] + 1 ELSE point[2] >>,
                           (IF up THEN error - delta_x ELSE error) + delta_y,
                           delta_x, delta_y, end_x,
                           Append(out, OctantFrom(o, point)))

BresenhamOvershoot(start, end) ==
    LET o == Octant(start, end)
        s == OctantTo(o, start)
        e == OctantTo(o, end)
    IN  BresenhamWalk(o, s, (e[2] - s[2]) - (e[1] - s[1]),
                      e[1] - s[1], e[2] - s[2], e[1] + 1, << >>)

Bresenham(start, end) ==
    LET o == Octant(start, end)
        s == OctantTo(o, start)
        e == OctantTo(o, end)
    IN  BresenhamWalk(o, s, (e[2] - s[2]) - (e[1] - s[1]),
                      e[1] - s[1], e[2] - s[2], e[1], << >>)

(* ---------------------------------------------------------------------- *)
(* The drawing tools (the drawing-mode branch of the event loop)            *)
(* ---------------------------------------------------------------------- *)
EraserRadius == 5

InDiskRim(dx, dy) == dx * dx + dy * dy = EraserRadius * EraserRadius

\* if (cx-lx)*(cx-lx) + (cy-ly)*(cy-ly) <= 5*5
InDisk(dx, dy) == dx * dx + dy * dy <= EraserRadius * EraserRadius

\* for cy in (ly - 5)..(ly + 5) { for cx in (lx - 5)..(lx + 5) { if .. } }:
\* the coordinates handed to put_pixel; a Rust range excludes its end
EraserStamp(lx, ly) ==
    { c \in ((lx - EraserRadius) .. (lx + EraserRadius - 1))
              \X ((ly - EraserRadius) .. (ly + EraserRadius - 1)) :
        InDisk(c[1] - lx, c[2] - ly) }

\* The result of a tool on one pixel of the path.  fault: a get_pixel or
\* put_pixel panicked; the raster is dropped with the process, so image then
\* holds the raster as it was.
Done(img) == [image |-> img, fault |-> FALSE]
Fault(img) == [image |-> img, fault |-> TRUE]

\* DrawTool::Pencil
Pencil(img, lx, ly) ==
    IF InBounds(img, lx, ly) THEN Done(put_pixel(img, lx, ly, Black))
    ELSE Fault(img)

\* DrawTool::Eraser
Eraser(img, lx, ly) ==
    LET stamp == EraserStamp(lx, ly)
    IN  IF \A c \in stamp : InBounds(img, c[1], c[2])
        THEN Done([img EXCEPT !.px = [q \in DOMAIN img.px |->
                                         IF q \in stamp THEN White ELSE img.px[q]]])
        ELSE Fault(img)

NeighboursAndSelf(img, point) ==
    (IF point[1] > 0 THEN << << point[1] - 1, point[2] >> >> ELSE << >>)
    \o (IF point[2] > 0 THEN << << point[1], point[2] - 1 >> >> ELSE << >>)
    \o (IF point[1] < img.width - 1 THEN << << point[1] + 1, point[2] >> >> ELSE << >>)
    \o (IF point[2] < img.height - 1 THEN << << point[1], point[2] + 1 >> >> ELSE << >>)
    \o << point >>

NeighboursNoUp(img, point) ==
    (IF point[1] > 0 THEN << << point[1] - 1, point[2] >> >> ELSE << >>)
    \o (IF point[1] < img.width - 1 THEN << << point[1] + 1, point[2] >> >> ELSE << >>)
    \o (IF point[2] < img.height - 1 THEN << << point[1], point[2] + 1 >> >> ELSE << >>)

\* the four conditional stack.push calls, in their order
Neighbours(img, point) ==
    (IF point[1] > 0 THEN << << point[1] - 1, point[2] >> >> ELSE << >>)
    \o (IF point[2] > 0 THEN << << point[1], point[2] - 1 >> >> ELSE << >>)
    \o (IF point[1] < img.width - 1 THEN << << point[1] + 1, point[2] >> >> ELSE << >>)
    \o (IF point[2] < img.height - 1 THEN << << point[1], point[2] + 1 >> >> ELSE << >>)

\* while let Some(point) = stack.pop() { .. }; recoloured and pushed record
\* the put_pixel and stack.push calls made
RECURSIVE FillLoop(_, _, _, _, _, _)
FillLoop(img, stack, start_colour, target_colour, recoloured, pushed) ==
    IF stack = << >>
    THEN [image |-> img, recoloured |-> recoloured, pushed |-> pushed]
    ELSE LET point == stack[Len(stack)]
             rest  == SubSeq(stack, 1, Len(stack) - 1)
         IN  IF get_pixel(img, point[1], point[2]) # start_colour
             THEN FillLoop(img, rest, start_colour, target_colour, recoloured, pushed)
             ELSE FillLoop(put_pixel(img, point[1], point[2], target_colour),
                           rest \o Neighbours(img, point),
                           start_colour, target_colour,
                           Append(recoloured, point),
                           pushed \o Neighbours(img, point))

CanFillBlack(start_colour, target_colour) == start_colour # target_colour

\* if start_colour != Rgba([0, 0, 0, 255]) && start_colour != target_colour
CanFill(start_colour, target_colour) ==
    start_colour # Black /\ start_colour # target_colour

\* let mut stack = vec![start_pos]; while ..
FloodFill(img, start_pos, target_colour) ==
    FillLoop(img, << start_pos >>, get_pixel(img, start_pos[1], start_pos[2]),
             target_colour, << >>, << >>)

left_pressed(m) == m.state["Left"] = "JustPressed"
right_pressed(m) == m.state["Right"] = "JustPressed"

\* let target_colour = if left_pressed { blue } else { red };
TargetColour(m) == IF left_pressed(m) THEN Blue ELSE Red

RoomIdentificationUnguarded(img, m) ==
    IF left_pressed(m) \/ right_pressed(m)
    THEN LET start_pos == AsU32(m.position)
         IN  IF ~InBounds(img, start_pos[1], start_pos[2]) THEN Fault(img)
             ELSE IF CanFill(get_pixel(img, start_pos[1], start_pos[2]),
                             TargetColour(m))
             THEN Done(FloodFill(img, start_pos, TargetColour(m)).image)
             ELSE Done(put_pixel(img, start_pos[1], start_pos[2], TargetColour(m)))
    ELSE Done(img)

\* DrawTool::RoomIdentification
RoomIdentification(img, m) ==
    IF left_pressed(m) \/ right_pressed(m)
    THEN LET start_pos == AsU32(m.position)
         IN  IF ~InBounds(img, start_pos[1], start_pos[2]) THEN Fault(img)
             ELSE IF CanFill(get_pixel(img, start_pos[1], start_pos[2]),
                             TargetColour(m))
             THEN Done(FloodFill(img, start_pos, TargetColour(m)).image)
             ELSE Done(img)
    ELSE Done(img)

\* match active_tool { .. } for the path pixel (lx, ly)
ApplyTool(tool, img, m, lx, ly) ==
    CASE tool = "Pencil" -> Pencil(img, lx, ly)
      [] tool = "Eraser" -> Eraser(img, lx, ly)
      [] tool = "RoomIdentification" -> RoomIdentification(img, m)

\* for (lx, ly) in Bresenham::new(..) { match active_tool { .. } }, from the
\* i-th pixel of the path on
RECURSIVE DrawAlong(_, _, _, _, _)
DrawAlong(path, i, tool, img, m) ==
    IF i > Len(path) THEN Done(img)
    ELSE LET r == ApplyTool(tool, img, m, path[i][1], path[i][2])
         IN  IF r.fault THEN r ELSE DrawAlong(path, i + 1, tool, r.image, m)

\* the path of this frame's stroke
StrokePath(m) == Bresenham(AsI32(m.last_position), AsI32(m.position))

\* if mouse.is_pressed(Left) || mouse.is_pressed(Right) { .. }
DrawStroke(tool, img, m) ==
    IF is_pressed(m, "Left") \/ is_pressed(m, "Right")
    THEN DrawAlong(StrokePath(m), 1, tool, img, m)
    ELSE Done(img)

(* ---------------------------------------------------------------------- *)
(* State                                                                   *)
(* ---------------------------------------------------------------------- *)
VARIABLES
    num_points,      \* args.num_points
    BATCH_SIZE,      \* const BATCH_SIZE, fixed at Init
    session,         \* the loader of the most recently started load session, 0 = none yet (ghost)
    loader,          \* per loader: the thread's locals and position
    chan,            \* per loader: batches sent and not yet received
    txAlive,         \* per loader: the Sender has not been dropped
    rxAlive,         \* per loader: the Receiver has not been dropped
    emitted,         \* per loader: history of the batches sent (ghost)
    rx,              \* main: Option<Receiver>; 0 = None, else the loader it receives from
    batch_number,    \* main: loading progress, -1 = no loading
    total_points,    \* main: n returned by load_point_cloud
    vertex_buffers,  \* main: render-ready chunks
    path_rx,         \* main: Option<Receiver<String>>: "None" or "Some"
    path_q,          \* path channel: paths sent and not yet received
    path_tx,         \* path channel: the Sender has not been dropped
    dialog,          \* file dialog thread: "none", "picking", "sent"
    cutaway_queued,  \* main: Render was clicked
    drawing_mode,    \* main: annotation mode
    active_tool,     \* main: DrawTool
    cpc,             \* main: position inside one event-loop iteration ("link": inside the boundary linking), "panicked" once main has panicked
    cutaway_image,                  \* main: Option<image>, the colour raster
    cutaway_slice_image,            \* main: Option<image>, the slice raster
    cutaway_slice_processed_image,  \* main: Option<image>, the linked raster the tools edit
    gpu,             \* outcome of the resource allocations of the last Render (ghost)
    mouse,           \* main: MouseManager
    presses,         \* button presses handed to MouseManager::update (ghost)
    fills,           \* frames in which RoomIdentification saw a just-pressed button (ghost)
    linker           \* the boundary linking of a Render: its locals and progress

vars == << num_points, BATCH_SIZE, session, loader, chan, txAlive, rxAlive,
           emitted, rx, batch_number, total_points, vertex_buffers, path_rx,
           path_q, path_tx, dialog, cutaway_queued, drawing_mode, active_tool,
           cpc, cutaway_image, cutaway_slice_image,
           cutaway_slice_processed_image, gpu, mouse, presses, fills, linker >>

rasterVars == << cutaway_image, cutaway_slice_image,
                 cutaway_slice_processed_image, gpu >>

mainVars == << session, rx, batch_number, total_points, vertex_buffers, path_rx,
               cutaway_queued, drawing_mode, active_tool, cpc, cutaway_image,
               cutaway_slice_image, cutaway_slice_processed_image, gpu >>
loaderVars == << loader, chan, txAlive, rxAlive, emitted >>
dialogVars == << path_q, path_tx, dialog >>
argVars == << num_points, BATCH_SIZE >>
drawVars == << mouse, presses, fills, linker >>

\* the locals of the linking when no Render has run
NoLinker == [image |-> "None", points |-> {}, todo |-> {}, radius |-> 0]

NoLoader ==
    [pc |-> "none", file |-> NoFile, n |-> 0, points_processed |-> 0,
     batch |-> <<>>, batch_number |-> 0]

\* the process lives until the main thread panics
Running == cpc # "panicked"

\* a loader identity no thread and no channel end is using
Free(s) == loader[s].pc \in {"none", "done", "panicked"} /\ ~txAlive[s] /\ ~rxAlive[s]

\* The thread spawned by load_point_cloud, before its first read
SpawnLoader(file, np) ==
    [pc |-> "read", file |-> file, n |-> EffectiveTotal(np, file.declared),
     points_processed |-> 0, batch |-> <<>>, batch_number |-> 0]

AfterReadUnwrap(l, r) ==
    IF r.tag = "Ok"
    THEN [l EXCEPT !.batch = Append(l.batch, r.point),
                   !.points_processed = l.points_processed + 1,
                   !.pc = "chk_full"]
    ELSE IF r.tag = "Err" THEN [l EXCEPT !.pc = "panicked"]
    ELSE [l EXCEPT !.pc = "exit"]

\* the loader's locals after reader.read() returned r: the while-let pattern
\* Some(Ok(point)) takes the point, anything else leaves the loop
AfterRead(l, r) ==
    IF r.tag = "Ok"
    THEN [l EXCEPT !.batch = Append(l.batch, r.point),
                   !.points_processed = l.points_processed + 1,
                   !.pc = "chk_full"]
    ELSE [l EXCEPT !.pc = "exit"]

\* The batches the read loop of load_point_cloud sends, in order, for a reader
\* that yields k records and then None, with limit n; pp records are read,
\* batch is held and out has been sent.
RECURSIVE CleanRun(_, _, _, _, _, _)
CleanRun(k, n, B, pp, batch, out) ==
    IF pp >= k THEN out
    ELSE LET b1   == Append(batch, Point(pp + 1))
             pp1  == pp + 1
             out1 == IF BatchFull(pp1, B) THEN Append(out, b1) ELSE out
             b2   == IF BatchFull(pp1, B) THEN AfterSend(b1) ELSE b1
         IN  IF LimitExceeded(pp1, n) THEN Append(out1, b2)
             ELSE CleanRun(k, n, B, pp1, b2, out1)

(* ---------------------------------------------------------------------- *)
(* Init: main() up to the event loop                                       *)
(* ---------------------------------------------------------------------- *)
Init ==
    /\ num_points \in 0..MaxNumPoints
    /\ BATCH_SIZE \in 1..MaxBatchSize
    /\ \E f \in ReadableFiles \cup {NoFile} :
         IF f = NoFile
         THEN /\ session = 0
              /\ loader = [s \in Loaders |-> NoLoader]
              /\ txAlive = [s \in Loaders |-> FALSE]
              /\ rxAlive = [s \in Loaders |-> FALSE]
              /\ rx = 0
              /\ batch_number = -1
              /\ total_points = 0
         ELSE /\ session = 1
              /\ loader = [s \in Loaders |->
                             IF s = 1 THEN SpawnLoader(f, num_points) ELSE NoLoader]
              /\ txAlive = [s \in Loaders |-> s = 1]
              /\ rxAlive = [s \in Loaders |-> s = 1]
              /\ rx = 1
              /\ batch_number = 0
              /\ total_points = EffectiveTotal(num_points, f.declared)
    /\ chan = [s \in Loaders |-> <<>>]
    /\ emitted = [s \in Loaders |-> <<>>]
    /\ vertex_buffers = <<>>
    /\ path_rx = "None"
    /\ path_q = <<>>
    /\ path_tx = FALSE
    /\ dialog = "none"
    /\ cutaway_queued = FALSE
    /\ drawing_mode = FALSE
    /\ active_tool = "Pencil"
    /\ cpc = "path"
    /\ cutaway_image = "None"
    /\ cutaway_slice_image = "None"
    /\ cutaway_slice_processed_image = "None"
    /\ gpu = "none"
    /\ mouse = NewMouse
    /\ presses = 0
    /\ fills = 0
    /\ linker = NoLinker

(* ---------------------------------------------------------------------- *)
(* The loader thread of session s (thread::spawn in load_point_cloud)      *)
(* ---------------------------------------------------------------------- *)
\* while let Some(Ok(point)) = reader.read() { batch.push(point);
\*     points_processed += 1;
LoaderRead(s) ==
    /\ Running
    /\ loader[s].pc = "read"
    /\ loader' = [loader EXCEPT ![s] =
                     AfterRead(loader[s],
                               Read(loader[s].file, loader[s].points_processed))]
    /\ UNCHANGED << chan, txAlive, rxAlive, emitted >>
    /\ UNCHANGED << mainVars, dialogVars, argVars, drawVars >>

\* tx.send(batch).unwrap(): enqueue, or panic when the receiver is gone (the
\* unwinding thread drops its Sender)
SendBatch(s, l) ==
    IF rxAlive[s]
    THEN /\ chan' = [chan EXCEPT ![s] = Send(chan[s], loader[s].batch)]
         /\ emitted' = [emitted EXCEPT ![s] = Append(emitted[s], loader[s].batch)]
         /\ loader' = [loader EXCEPT ![s] = l]
         /\ UNCHANGED txAlive
    ELSE /\ loader' = [loader EXCEPT ![s] = [loader[s] EXCEPT !.pc = "panicked"]]
         /\ txAlive' = [txAlive EXCEPT ![s] = FALSE]
         /\ UNCHANGED << chan, emitted >>

\*     if points_processed % BATCH_SIZE == 0 { tx.send(batch).unwrap();
\*         batch = vec![]; batch_number += 1; }
LoaderCheckFull(s) ==
    /\ Running
    /\ loader[s].pc = "chk_full"
    /\ LET l == loader[s] IN
         IF BatchFull(l.points_processed, BATCH_SIZE)
         THEN /\ CanSend(chan[s])
              /\ SendBatch(s, [l EXCEPT !.batch = AfterSend(l.batch),
                                        !.batch_number = l.batch_number + 1,
                                        !.pc = "chk_limit"])
         ELSE /\ loader' = [loader EXCEPT ![s] = [l EXCEPT !.pc = "chk_limit"]]
              /\ UNCHANGED << chan, txAlive, emitted >>
    /\ UNCHANGED rxAlive
    /\ UNCHANGED << mainVars, dialogVars, argVars, drawVars >>

\*     if points_processed > n { tx.send(batch).unwrap(); batch = vec![]; break; } }
LoaderCheckLimit(s) ==
    /\ Running
    /\ loader[s].pc = "chk_limit"
    /\ LET l == loader[s] IN
         IF LimitExceeded(l.points_processed, l.n)
         THEN /\ CanSend(chan[s])
              /\ SendBatch(s, [l EXCEPT !.batch = AfterSend(l.batch),
                                        !.pc = "exit"])
         ELSE /\ loader' = [loader EXCEPT ![s] = [l EXCEPT !.pc = "read"]]
              /\ UNCHANGED << chan, txAlive, emitted >>
    /\ UNCHANGED rxAlive
    /\ UNCHANGED << mainVars, dialogVars, argVars, drawVars >>

\* println!("Points Loaded"); the closure returns and drops tx
LoaderExit(s) ==
    /\ Running
    /\ loader[s].pc = "exit"
    /\ loader' = [loader EXCEPT ![s] = [loader[s] EXCEPT !.pc = "done"]]
    /\ txAlive' = [txAlive EXCEPT ![s] = FALSE]
    /\ UNCHANGED << chan, rxAlive, emitted >>
    /\ UNCHANGED << mainVars, dialogVars, argVars, drawVars >>

(* ---------------------------------------------------------------------- *)
(* The file dialog thread (thread::spawn in the Load Point Cloud button)   *)
(* ---------------------------------------------------------------------- *)
\* rfd::FileDialog::new().pick_file() yields a path: tx.send(path)
DialogPick(f) ==
    /\ Running
    /\ dialog = "picking"
    /\ path_q' = Append(path_q, f)
    /\ dialog' = "sent"
    /\ UNCHANGED path_tx
    /\ UNCHANGED << mainVars, loaderVars, argVars, drawVars >>

\* pick_file() yields None (dialog cancelled): the thread ends, tx is dropped
DialogCancel ==
    /\ Running
    /\ dialog = "picking"
    /\ dialog' = "none"
    /\ path_tx' = FALSE
    /\ UNCHANGED path_q
    /\ UNCHANGED << mainVars, loaderVars, argVars, drawVars >>

\* the dialog thread ends after its send, tx is dropped
DialogExit ==
    /\ Running
    /\ dialog = "sent"
    /\ dialog' = "none"
    /\ path_tx' = FALSE
    /\ UNCHANGED path_q
    /\ UNCHANGED << mainVars, loaderVars, argVars, drawVars >>

(* ---------------------------------------------------------------------- *)
(* One iteration of the event loop (main), in program order                *)
(* ---------------------------------------------------------------------- *)
\* if let Some(r) = &path_rx { match r.try_recv() { .. } }
PollPath ==
    /\ cpc = "path"
    /\ ~drawing_mode
    /\ LET res == IF path_rx = "Some" THEN TryRecv(path_q, path_tx) ELSE "Empty" IN
         CASE res = "Ok" /\ OpenFails(Head(path_q)) ->
                \* load_point_cloud: Reader::from_path(filename).unwrap() panics
                /\ cpc' = "panicked"
                /\ path_q' = Tail(path_q)
                /\ UNCHANGED << path_rx, session, loaderVars, rx, total_points,
                                vertex_buffers, batch_number >>
           [] res = "Ok" /\ ~OpenFails(Head(path_q)) ->
                \* (total_points, centre, rx) = load_point_cloud(&path, num_points);
                \* vertex_buffers = vec![]; batch_number = 0;
                \* the old value of rx, if any, is dropped by the assignment
                LET f == Head(path_q)
                    dropped == [s \in Loaders |-> rxAlive[s] /\ s # rx]
                IN  /\ cpc' = "batch"
                    /\ \E new \in Loaders :
                         /\ Free(new)
                         /\ \A s \in Loaders : Free(s) => new <= s
                         /\ session' = new
                         /\ loader' = [loader EXCEPT ![new] = SpawnLoader(f, num_points)]
                         /\ txAlive' = [txAlive EXCEPT ![new] = TRUE]
                         /\ rxAlive' = [dropped EXCEPT ![new] = TRUE]
                         /\ chan' = [chan EXCEPT ![new] = <<>>]
                         /\ emitted' = [emitted EXCEPT ![new] = <<>>]
                         /\ rx' = new
                    /\ path_q' = Tail(path_q)
                    /\ total_points' = EffectiveTotal(num_points, f.declared)
                    /\ vertex_buffers' = <<>>
                    /\ batch_number' = 0
                    /\ UNCHANGED path_rx
           [] res = "Disconnected" ->
                /\ cpc' = "batch"
                /\ path_rx' = "None"
                /\ UNCHANGED << path_q, session, loaderVars, rx,
                                total_points, vertex_buffers, batch_number >>
           [] res = "Empty" ->
                /\ cpc' = "batch"
                /\ UNCHANGED << path_rx, path_q, session, loaderVars,
                                rx, total_points, vertex_buffers, batch_number >>
    /\ UNCHANGED << path_tx, dialog, cutaway_queued, drawing_mode,
                    active_tool, argVars, drawVars, rasterVars >>

PollBatchDropsChunk ==
    /\ cpc = "batch"
    /\ cpc' = "gui"
    /\ LET res == IF rx # 0 THEN TryRecv(chan[rx], txAlive[rx]) ELSE "Empty" IN
         CASE res = "Ok" ->
                /\ vertex_buffers' = vertex_buffers
                /\ chan' = [chan EXCEPT ![rx] = Tail(chan[rx])]
                /\ batch_number' = batch_number + 1
                /\ UNCHANGED << rx, rxAlive >>
           [] res = "Disconnected" ->
                /\ batch_number' = -1
                /\ rx' = 0
                /\ rxAlive' = [rxAlive EXCEPT ![rx] = FALSE]
                /\ UNCHANGED << vertex_buffers, chan >>
           [] res = "Empty" ->
                UNCHANGED << vertex_buffers, chan, batch_number, rx, rxAlive >>
    /\ UNCHANGED << session, loader, txAlive, emitted, total_points, path_rx,
                    cutaway_queued, drawing_mode, active_tool, dialogVars, argVars, drawVars,
                    rasterVars >>

\* if let Some(r) = &rx { match r.try_recv() { .. } }
PollBatch ==
    /\ cpc = "batch"
    /\ cpc' = "gui"
    /\ LET res == IF rx # 0 THEN TryRecv(chan[rx], txAlive[rx]) ELSE "Empty" IN
         CASE res = "Ok" ->
                /\ vertex_buffers' = Append(vertex_buffers, ConvertBatch(Head(chan[rx])))
                /\ chan' = [chan EXCEPT ![rx] = Tail(chan[rx])]
                /\ batch_number' = batch_number + 1
                /\ UNCHANGED << rx, rxAlive >>
           [] res = "Disconnected" ->
                /\ batch_number' = -1
                /\ rx' = 0
                /\ rxAlive' = [rxAlive EXCEPT ![rx] = FALSE]
                /\ UNCHANGED << vertex_buffers, chan >>
           [] res = "Empty" ->
                UNCHANGED << vertex_buffers, chan, batch_number, rx, rxAlive >>
    /\ UNCHANGED << session, loader, txAlive, emitted, total_points, path_rx,
                    cutaway_queued, drawing_mode, active_tool, dialogVars, argVars, drawVars,
                    rasterVars >>

GuiRenderAnytime ==
    /\ cpc = "gui"
    /\ cpc' = "render"
    /\ \E click \in {"none", "load", "render"} :
         CASE click = "load" ->
                /\ batch_number < 0
                /\ path_rx = "None"
                /\ path_rx' = "Some"
                /\ path_q' = <<>>
                /\ path_tx' = TRUE
                /\ dialog' = "picking"
                /\ UNCHANGED cutaway_queued
           [] click = "render" ->
                /\ cutaway_queued' = TRUE
                /\ UNCHANGED << path_rx, dialogVars >>
           [] click = "none" ->
                UNCHANGED << path_rx, dialogVars, cutaway_queued >>
    /\ UNCHANGED << rx, batch_number, total_points, vertex_buffers, drawing_mode,
                    active_tool, session, loaderVars, argVars, drawVars, rasterVars >>

GuiLoadAnytime ==
    /\ cpc = "gui"
    /\ cpc' = "render"
    /\ \E click \in {"none", "load", "render"} :
         CASE click = "load" ->
                /\ path_rx = "None"
                /\ path_rx' = "Some"
                /\ path_q' = <<>>
                /\ path_tx' = TRUE
                /\ dialog' = "picking"
                /\ UNCHANGED cutaway_queued
           [] click = "render" ->
                /\ batch_number < 0
                /\ cutaway_queued' = TRUE
                /\ UNCHANGED << path_rx, dialogVars >>
           [] click = "none" ->
                UNCHANGED << path_rx, dialogVars, cutaway_queued >>
    /\ UNCHANGED << rx, batch_number, total_points, vertex_buffers, drawing_mode,
                    active_tool, session, loaderVars, argVars, drawVars, rasterVars >>

\* the side panel: progress bar while loading, else the Load Point Cloud
\* button (enabled while path_rx is None) and the Render button
Gui ==
    /\ cpc = "gui"
    /\ cpc' = "render"
    /\ \E click \in {"none", "load", "render"} :
         CASE click = "load" ->
                /\ batch_number < 0
                /\ path_rx = "None"
                /\ path_rx' = "Some"
                /\ path_q' = <<>>
                /\ path_tx' = TRUE
                /\ dialog' = "picking"
                /\ UNCHANGED cutaway_queued
           [] click = "render" ->
                /\ batch_number < 0
                /\ cutaway_queued' = TRUE
                /\ UNCHANGED << path_rx, dialogVars >>
           [] click = "none" ->
                UNCHANGED << path_rx, dialogVars, cutaway_queued >>
    /\ UNCHANGED << rx, batch_number, total_points, vertex_buffers, drawing_mode,
                    active_tool, session, loaderVars, argVars, drawVars, rasterVars >>

\* the allocations of one Render: all succeed, or the first failure is that of
\* a texture (Texture2d::empty_with_format), of the depth buffer
\* (DepthRenderBuffer::new), or of the colour or the slice framebuffer
GpuOutcomes == {"ok", "texture", "depth", "colour_buffer", "slice_buffer"}
GpuFailures == GpuOutcomes \ {"ok"}

\* .unwrap() on the textures and the depth buffer: their failure panics
AllocPanics(g) == g \in {"texture", "depth"}

\* what texture.read() yields: the rendered pass, or the never-written storage
\* of the texture when its framebuffer is None (.ok() of a failed creation)
ReadBack(g, buffer) == IF g = buffer THEN "Uninit" ELSE "Rendered"

LinkSkipped(img) == "None"

\* the raster after the boundary linking of a slice raster
Linked(img) == IF img = "Rendered" THEN "LinkedRendered" ELSE "LinkedUninit"

\* if cutaway_queued { .. cutaway_queued = false; }  .. the frame is drawn ..
\* if let Some(cutaway_texture) = cutaway_texture { .. drawing_mode = true; }
Render ==
    /\ cpc = "render"
    /\ IF cutaway_queued
       THEN \E g \in GpuOutcomes :
              /\ gpu' = g
              /\ IF AllocPanics(g)
                 THEN /\ cpc' = "panicked"
                      /\ UNCHANGED << cutaway_queued, drawing_mode, cutaway_image,
                                      cutaway_slice_image,
                                      cutaway_slice_processed_image >>
                 ELSE /\ cpc' = "path"
                      /\ cutaway_queued' = FALSE
                      /\ cutaway_image' = ReadBack(g, "colour_buffer")
                      /\ cutaway_slice_image' = ReadBack(g, "slice_buffer")
                      /\ cutaway_slice_processed_image' =
                             Linked(ReadBack(g, "slice_buffer"))
                      /\ drawing_mode' = TRUE
       ELSE /\ cpc' = "path"
            /\ UNCHANGED << cutaway_queued, drawing_mode, rasterVars >>
    /\ UNCHANGED << rx, batch_number, total_points, vertex_buffers, path_rx,
                    active_tool, session, loaderVars, dialogVars, argVars, drawVars >>

MaxPresses == 2

\* what the drawing-mode branch does not touch
appVars == << num_points, BATCH_SIZE, session, loader, chan, txAlive, rxAlive,
              emitted, rx, batch_number, total_points, vertex_buffers, path_rx,
              path_q, path_tx, dialog, cutaway_queued, drawing_mode,
              cutaway_image, cutaway_slice_image, gpu, linker >>

\* WindowEvent::MouseInput { button, state }: mouse.update(button, state)
MouseInput(button, pressed) ==
    /\ Running
    /\ drawing_mode
    /\ pressed => presses < MaxPresses
    /\ mouse' = MouseUpdate(mouse, button, pressed)
    /\ presses' = IF pressed THEN presses + 1 ELSE presses
    /\ UNCHANGED << appVars, cutaway_slice_processed_image, active_tool, cpc, fills >>

\* WindowEvent::CursorMoved { position }: mouse.update_position(position)
CursorMoved(p) ==
    /\ Running
    /\ drawing_mode
    /\ mouse' = MouseUpdatePosition(mouse, p)
    /\ UNCHANGED << appVars, cutaway_slice_processed_image, active_tool, cpc,
                    presses, fills >>

\* One iteration of the event loop in drawing mode: the tool buttons of the
\* side panel (click), the stroke of the active tool, mouse.on_new_frame().
DrawFrame(click) ==
    /\ cpc = "path"
    /\ drawing_mode
    /\ LET tool == IF click = "none" THEN active_tool ELSE click
           r    == DrawStroke(tool, cutaway_slice_processed_image, mouse)
       IN  /\ active_tool' = tool
           /\ IF r.fault
              THEN /\ cpc' = "panicked"
                   /\ UNCHANGED << cutaway_slice_processed_image, mouse, fills >>
              ELSE /\ cutaway_slice_processed_image' = r.image
                   /\ mouse' = MouseOnNewFrame(mouse)
                   /\ fills' = IF tool = "RoomIdentification"
                                  /\ (left_pressed(mouse) \/ right_pressed(mouse))
                               THEN fills + 1 ELSE fills
                   /\ UNCHANGED cpc
    /\ UNCHANGED << appVars, presses >>

\* the drawing-mode branch of the iteration with a tool button clicked
DrawTick(tool) == DrawFrame(tool)

DrawTools == {"Pencil", "Eraser", "RoomIdentification"}

Next ==
    \/ \E s \in Loaders : LoaderRead(s)
    \/ \E s \in Loaders : LoaderCheckFull(s)
    \/ \E s \in Loaders : LoaderCheckLimit(s)
    \/ \E s \in Loaders : LoaderExit(s)
    \/ \E f \in PickableFiles : DialogPick(f)
    \/ DialogCancel
    \/ DialogExit
    \/ PollPath
    \/ PollBatch
    \/ Gui
    \/ Render
    \/ \E t \in DrawTools : DrawTick(t)

Spec == Init /\ [][Next]_vars

\* every step the loader thread of s can take
LoaderStep(s) ==
    LoaderRead(s) \/ LoaderCheckFull(s) \/ LoaderCheckLimit(s) \/ LoaderExit(s)

\* every step the event loop can take
MainStep ==
    PollPath \/ PollBatch \/ Gui \/ Render \/ \E t \in DrawTools : DrawTick(t)

(* ---------------------------------------------------------------------- *)
(* Drawing mode in detail: the raster of cutaway_slice_processed_image      *)
(* ---------------------------------------------------------------------- *)
FillW == 3
FillH == 2
BoxW == 4
BoxH == 4
StrokeW == 16
StrokeH == 16

\* the state in which drawing mode runs on the raster img with the pointer m:
\* a Render has succeeded, no load is in progress
InDrawingMode(img, m, tool) ==
    /\ num_points = 0
    /\ BATCH_SIZE = 1
    /\ session = 0
    /\ loader = [s \in Loaders |-> NoLoader]
    /\ chan = [s \in Loaders |-> <<>>]
    /\ txAlive = [s \in Loaders |-> FALSE]
    /\ rxAlive = [s \in Loaders |-> FALSE]
    /\ emitted = [s \in Loaders |-> <<>>]
    /\ rx = 0
    /\ batch_number = -1
    /\ total_points = 0
    /\ vertex_buffers = <<>>
    /\ path_rx = "None"
    /\ path_q = <<>>
    /\ path_tx = FALSE
    /\ dialog = "none"
    /\ cutaway_queued = FALSE
    /\ drawing_mode = TRUE
    /\ active_tool = tool
    /\ cpc = "path"
    /\ cutaway_image = "Rendered"
    /\ cutaway_slice_image = "Rendered"
    /\ cutaway_slice_processed_image = img
    /\ gpu = "ok"
    /\ mouse = m
    /\ linker = NoLinker

\* the rasters of w x h pixels over the colours of palette
Rasters(w, h, palette) ==
    { [width |-> w, height |-> h, px |-> f] : f \in [Pixels(w, h) -> palette] }

\* a raster of the colour outer holding one black-bordered 3 x 3 square whose
\* single interior pixel (BoxCentre) has the colour inner
BoxCentre(w, h) == << w \div 2, h \div 2 >>

BoxBorder(w, h) ==
    { p \in Pixels(w, h) \ {BoxCentre(w, h)} :
        /\ p[1] - BoxCentre(w, h)[1] \in -1 .. 1
        /\ p[2] - BoxCentre(w, h)[2] \in -1 .. 1 }

Boxed(w, h, inner, outer) ==
    [width |-> w, height |-> h,
     px |-> [p \in Pixels(w, h) |->
                IF p = BoxCentre(w, h) THEN inner
                ELSE IF p \in BoxBorder(w, h) THEN Black
                ELSE outer]]

\* the rasters the fill is run on: every small raster of outline and erased
\* pixels, and the boxed rasters
FillRasters ==
    Rasters(FillW, FillH, {Black, White})
        \cup { Boxed(BoxW, BoxH, inner, outer) :
                  inner \in {White, Blue}, outer \in {White, Red} }

\* RoomIdentification was chosen, the pointer has been moved once, to a pixel
\* of the raster, and a button has just been pressed
InitFill ==
    \E img \in FillRasters, b \in Buttons :
        \E p \in DOMAIN img.px :
            /\ InDrawingMode(img,
                   MouseUpdate(MouseUpdatePosition(NewMouse, Pos(p[1], p[2])), b, TRUE),
                   "RoomIdentification")
            /\ presses = 1
            /\ fills = 0

SpecFill == InitFill /\ [][DrawFrame("none")]_vars

\* where the pointer can be for a raster of w x h: on it and just outside it
Pointers(w, h) == { Pos(x, y) : x \in -1 .. w, y \in -1 .. h }

\* where the strokes end: the corners and the middle of the area in which the
\* eraser's stamp fits the raster, a corner of the raster, and off the raster
StrokeEnds(w, h) ==
    { Pos(EraserRadius, EraserRadius), Pos(w - EraserRadius, EraserRadius),
      Pos(w - EraserRadius, h - EraserRadius), Pos(w \div 2, h \div 2),
      Pos(0, 0), Pos(w, h) }

\* Pencil on a blank raster or Eraser on a black one, the left button held,
\* the pointer moved from one position to another since the last frame
InitStroke ==
    \E tool \in {"Pencil", "Eraser"},
       a \in Pointers(StrokeW, StrokeH), b \in StrokeEnds(StrokeW, StrokeH) :
        /\ InDrawingMode(
               Blank(StrokeW, StrokeH, IF tool = "Pencil" THEN White ELSE Black),
               [state |-> [k \in Buttons |-> IF k = "Left" THEN "Pressed" ELSE "Released"],
                position |-> b, last_position |-> a, new_frame |-> FALSE],
               tool)
        /\ presses = 1
        /\ fills = 0

SpecStroke == InitStroke /\ [][DrawFrame("none")]_vars

\* a raster of erased pixels cut in two by a black column
Walled(w, h) ==
    [width |-> w, height |-> h,
     px |-> [p \in Pixels(w, h) |-> IF p[1] = 1 THEN Black ELSE White]]

\* where the pointer goes: left of the wall, on it, right of it, off the raster
RoomPointers(w, h) == { Pos(0, 0), Pos(1, 0), Pos(w - 1, h - 1), Pos(w, 0) }

\* RoomIdentification was chosen; no button and no pointer event yet
InitRoom ==
    /\ InDrawingMode(Walled(FillW, FillH), NewMouse, "RoomIdentification")
    /\ presses = 0
    /\ fills = 0

NextRoom ==
    \/ \E b \in Buttons, pressed \in BOOLEAN : MouseInput(b, pressed)
    \/ \E p \in RoomPointers(FillW, FillH) : CursorMoved(p)
    \/ DrawFrame("none")

SpecRoom == InitRoom /\ [][NextRoom]_vars

(* ---------------------------------------------------------------------- *)
(* Boundary linking (the processing of the slice raster after a Render)     *)
(* ---------------------------------------------------------------------- *)
LinkW == 12
LinkH == 2
MaxBoundary == 2

Faint == << 255, 255, 255, 128 >>    \* a slice pixel of alpha 128
Solid == << 255, 255, 255, 129 >>    \* a slice pixel of alpha 129

IsBoundaryFrom128(colour) == colour[4] >= 128

\* if colour.0[3] > 128_u8
IsBoundary(colour) == colour[4] > 128

\* points, as collected from the slice raster before any stamping
BoundaryPoints(slice) ==
    { p \in DOMAIN slice.px : IsBoundary(slice.px[p]) }

KdTreeOfTodo(l) == l.todo

\* kdtree: built once from points, queried in every round
KdTree(l) == l.points

\* (f32::max(point_size * zoom, 1.0) * 10.0) as i32, for point_size * zoom
\* given in tenths
LinkRadius(scale10) == IF scale10 > 10 THEN scale10 ELSE 10

WithinRadiusOthers(points, q, radius) ==
    { c \in points \ {q} :
        (c[1] - q[1]) * (c[1] - q[1]) + (c[2] - q[2]) * (c[2] - q[2])
            < radius * radius }

\* kdtree.within_radius(&[x, y], radius): the points nearer than radius
WithinRadius(points, q, radius) ==
    { c \in points :
        (c[1] - q[1]) * (c[1] - q[1]) + (c[2] - q[2]) * (c[2] - q[2])
            < radius * radius }

\* the pixels of for (lx, ly) in Bresenham::new((x, y), (close_point[0], close_point[1]))
Segment(p, c) ==
    LET path == Bresenham(p, c) IN { path[i] : i \in 1 .. Len(path) }

StampFromBlank(img, p, close_points) ==
    LET stamped == UNION { Segment(p, c) : c \in close_points }
    IN  [img EXCEPT !.px = [q \in DOMAIN img.px |->
                               IF q \in stamped THEN Black ELSE White]]

\* for close_point in close_points { for (lx, ly) in .. { image.put_pixel(.., black) } }
StampFrom(img, p, close_points) ==
    LET stamped == UNION { Segment(p, c) : c \in close_points }
    IN  [img EXCEPT !.px = [q \in DOMAIN img.px |->
                               IF q \in stamped THEN Black ELSE img.px[q]]]

\* what the linking leaves unchanged
linkFrame == << num_points, BATCH_SIZE, session, loader, chan, txAlive, rxAlive,
                emitted, rx, batch_number, total_points, vertex_buffers, path_rx,
                path_q, path_tx, dialog, cutaway_queued, active_tool,
                cutaway_image, cutaway_slice_image, gpu, mouse, presses, fills >>

\* one round of for [x, y] in kdtree.iter() { .. }, for the point p
LinkPoint(p) ==
    /\ cpc = "link"
    /\ p \in linker.todo
    /\ linker' = [linker EXCEPT
                    !.image = StampFrom(linker.image, p,
                                  WithinRadius(KdTree(linker), p, linker.radius)),
                    !.todo = linker.todo \ {p}]
    /\ UNCHANGED << linkFrame, cutaway_slice_processed_image, drawing_mode, cpc >>

\* cutaway_slice_processed_image = Some(image); drawing_mode = true;
LinkFinish ==
    /\ cpc = "link"
    /\ linker.todo = {}
    /\ cutaway_slice_processed_image' = linker.image
    /\ drawing_mode' = TRUE
    /\ cpc' = "path"
    /\ UNCHANGED << linkFrame, linker >>

\* the subsets of S of at most k elements
RECURSIVE SubsetsUpTo(_, _)
SubsetsUpTo(S, k) ==
    IF k = 0 THEN { {} }
    ELSE LET prev == SubsetsUpTo(S, k - 1)
         IN  prev \cup { T \cup {x} : T \in prev, x \in S }

\* a slice raster whose pixels of alpha above the threshold are those of pts
SliceOf(w, h, pts) ==
    [width |-> w, height |-> h,
     px |-> [p \in Pixels(w, h) |-> IF p \in pts THEN Solid ELSE Faint]]

\* point_size * zoom, in tenths, of the Renders considered
Scales10 == {5, 11}

Sky == << 135, 206, 235, 255 >>      \* CLEAR_COLOUR as read back
Shaded == << 200, 100, 50, 255 >>    \* a pixel of the colour raster drawn by a point

\* a colour raster: cleared to CLEAR_COLOUR, points drawn on the pixels of cover
\* (in InitLink, the pixels that the slice pass drew too)
ColourOf(w, h, cover) ==
    [width |-> w, height |-> h,
     px |-> [p \in Pixels(w, h) |-> IF p \in cover THEN Shaded ELSE Sky]]

\* a Render has read the slice raster back and collected its boundary points
InitLink ==
    \E pts \in SubsetsUpTo(Pixels(LinkW, LinkH), MaxBoundary), scale10 \in Scales10 :
        /\ num_points = 0
        /\ BATCH_SIZE = 1
        /\ session = 0
        /\ loader = [s \in Loaders |-> NoLoader]
        /\ chan = [s \in Loaders |-> <<>>]
        /\ txAlive = [s \in Loaders |-> FALSE]
        /\ rxAlive = [s \in Loaders |-> FALSE]
        /\ emitted = [s \in Loaders |-> <<>>]
        /\ rx = 0
        /\ batch_number = -1
        /\ total_points = 0
        /\ vertex_buffers = <<>>
        /\ path_rx = "None"
        /\ path_q = <<>>
        /\ path_tx = FALSE
        /\ dialog = "none"
        /\ cutaway_queued = FALSE
        /\ drawing_mode = FALSE
        /\ active_tool = "Pencil"
        /\ cpc = "link"
        /\ cutaway_image = ColourOf(LinkW, LinkH, pts)
        /\ cutaway_slice_image = SliceOf(LinkW, LinkH, pts)
        /\ cutaway_slice_processed_image = "None"
        /\ gpu = "ok"
        /\ mouse = NewMouse
        /\ presses = 0
        /\ fills = 0
        /\ linker = [image |-> SliceOf(LinkW, LinkH, pts),
                     points |-> BoundaryPoints(SliceOf(LinkW, LinkH, pts)),
                     todo |-> BoundaryPoints(SliceOf(LinkW, LinkH, pts)),
                     radius |-> LinkRadius(scale10)]

NextLink ==
    \/ \E p \in Pixels(LinkW, LinkH) : LinkPoint(p)
    \/ LinkFinish

SpecLink == InitLink /\ [][NextLink]_vars

(* ---------------------------------------------------------------------- *)
(* Vocabulary of the properties                                            *)
(* ---------------------------------------------------------------------- *)
RECURSIVE Flatten(_)
Flatten(batches) ==
    IF batches = <<>> THEN <<>> ELSE Head(batches) \o Flatten(Tail(batches))

BatchSizes(batches) == [k \in 1..Len(batches) |-> Len(batches[k])]

SumLen(batches) == Len(Flatten(batches))

\* the first k records of a file, in read order
FilePrefix(k) == [i \in 1..k |-> Point(i)]

IsPrefix(a, b) == Len(a) <= Len(b) /\ \A i \in 1..Len(a) : a[i] = b[i]

CeilDiv(a, b) == (a + b - 1) \div b

Started(s) == loader[s].pc # "none"
Terminated(s) == loader[s].pc \in {"exit", "done"}

\* the consumer has seen the end of the most recent load
EndOfLoadSeen == session # 0 /\ rx = 0 /\ batch_number = -1

\* count_limit = 0 and a file that declares and yields 2 * BATCH_SIZE points
TwoBatchScenario(s) ==
    /\ Started(s)
    /\ num_points = 0
    /\ loader[s].file.declared = 2 * BATCH_SIZE
    /\ loader[s].file.good = 2 * BATCH_SIZE

C2_BatchCount ==
    \A s \in Loaders :
        Terminated(s) =>
            Len(emitted[s]) =
                CeilDiv(Min(loader[s].n, loader[s].file.good) + 1, BATCH_SIZE)

(* ---------------------------------------------------------------------- *)
(* C3                                                                      *)
(* ---------------------------------------------------------------------- *)
\* C3: when a loader has terminated, the lengths of its batches sum to
\* min(N, total_points) or to min(N, total_points) + 1.
C3_PointsDelivered ==
    \A s \in Loaders :
        Terminated(s) =>
            LET m == Min(loader[s].n, loader[s].file.good)
            IN  SumLen(emitted[s]) \in {m, m + 1}

(* ---------------------------------------------------------------------- *)
(* C4                                                                      *)
(* ---------------------------------------------------------------------- *)
\* C4: at every point of a load, the batches emitted so far, concatenated in
\* emission order, are a prefix of the file's records in read order.
C4_EmittedIsPrefix ==
    \A s \in Loaders :
        Started(s) =>
            /\ SumLen(emitted[s]) <= loader[s].file.good
            /\ Flatten(emitted[s]) = FilePrefix(SumLen(emitted[s]))

C4_Witness ==
    \E s \in Loaders :
        /\ Len(emitted[s]) >= 2
        /\ Len(emitted[s][1]) >= 2
        /\ Len(emitted[s][2]) >= 1

(* ---------------------------------------------------------------------- *)
(* C5                                                                      *)
(* ---------------------------------------------------------------------- *)
\* C5: when the loader has terminated (end-of-data or limit exceeded) the
\* remaining partial batch has been emitted: every record read is in an
\* emitted batch and none is left in the loader's batch.
C5_NothingLeftUnemitted ==
    \A s \in Loaders :
        Terminated(s) =>
            /\ loader[s].batch = <<>>
            /\ SumLen(emitted[s]) = loader[s].points_processed

(* ---------------------------------------------------------------------- *)
(* C6                                                                      *)
(* ---------------------------------------------------------------------- *)
\* C6: every emitted batch has at most B records, and a batch with fewer than
\* B records is the last batch of a loader that has left its read loop.
C6_BatchSizes ==
    \A s \in Loaders : \A k \in 1..Len(emitted[s]) :
        /\ Len(emitted[s][k]) <= BATCH_SIZE
        /\ Len(emitted[s][k]) # BATCH_SIZE =>
              (k = Len(emitted[s]) /\ Terminated(s))

C6_Witness ==
    \E s \in Loaders :
        /\ Len(emitted[s]) >= 2
        /\ Len(emitted[s][1]) = BATCH_SIZE
        /\ Len(emitted[s][Len(emitted[s])]) < BATCH_SIZE
        /\ BATCH_SIZE >= 2

(* ---------------------------------------------------------------------- *)
(* C7                                                                      *)
(* ---------------------------------------------------------------------- *)
\* C7: the k-th chunk the consumer holds comes from the k-th batch the loader
\* of the session emitted, with one vertex per record in record order, and
\* the batches in flight are exactly the emitted ones not yet received.
C7_Fifo ==
    session # 0 =>
        /\ Len(vertex_buffers) <= Len(emitted[session])
        /\ \A k \in 1..Len(vertex_buffers) :
              /\ Len(vertex_buffers[k]) = Len(emitted[session][k])
              /\ \A j \in 1..Len(vertex_buffers[k]) :
                    vertex_buffers[k][j].position = emitted[session][k][j].x
        /\ rx = session =>
              chan[rx] = SubSeq(emitted[session], Len(vertex_buffers) + 1,
                                Len(emitted[session]))

C7_Witness ==
    /\ session # 0
    /\ Len(vertex_buffers) >= 2
    /\ Len(vertex_buffers[1]) >= 2
    /\ Len(vertex_buffers[2]) >= 2

(* ---------------------------------------------------------------------- *)
(* C8                                                                      *)
(* ---------------------------------------------------------------------- *)
\* C8: a step in which the consumer marks the load finished (batch_number
\* reset to -1 or rx dropped) does both, and is taken only when the loader of
\* rx has terminated and dropped its sender, its channel is empty and every
\* batch it emitted is already in vertex_buffers.
C8_FinishOnlyOnDisconnect ==
    [][ ((batch_number >= 0 /\ batch_number' = -1) \/ (rx # 0 /\ rx' = 0)) =>
            /\ rx # 0 /\ rx' = 0
            /\ batch_number >= 0 /\ batch_number' = -1
            /\ loader[rx].pc = "done"
            /\ ~txAlive[rx]
            /\ chan[rx] = <<>>
            /\ Len(vertex_buffers) = Len(emitted[rx])
            /\ batch_number = Len(emitted[rx])
      ]_vars

C8_Witness ==
    /\ EndOfLoadSeen
    /\ Len(vertex_buffers) >= 2
    /\ loader[session].pc = "done"

(* ---------------------------------------------------------------------- *)
(* C9                                                                      *)
(* ---------------------------------------------------------------------- *)
\* C9: while the program runs, the event loop always has a step to take, a
\* loader that has not finished always has a step to take however many batches
\* are queued, and a batch leaves a channel only in the batch poll, one batch
\* per iteration.
C9_NeitherSideWaits ==
    /\ [](Running => ENABLED MainStep)
    /\ [](\A s \in Loaders :
             (Running /\ loader[s].pc \in {"read", "chk_full", "chk_limit", "exit"})
                 => ENABLED LoaderStep(s))
    /\ [][ \A s \in Loaders :
             (chan'[s] # chan[s] /\ Len(chan'[s]) <= Len(chan[s])) =>
                 /\ s = rx
                 /\ chan[s] # <<>>
                 /\ chan'[s] = Tail(chan[s])
                 /\ cpc = "batch" /\ cpc' = "gui"
                 /\ Len(vertex_buffers') = Len(vertex_buffers) + 1
       ]_vars

\* the loader ran to completion while the consumer received nothing
C9_Witness ==
    \E s \in Loaders :
        /\ loader[s].pc = "done"
        /\ rx = s
        /\ batch_number = 0
        /\ Len(emitted[s]) >= 2
        /\ chan[s] = emitted[s]

(* ---------------------------------------------------------------------- *)
(* C11                                                                     *)
(* ---------------------------------------------------------------------- *)
\* C11: a step of the path poll that receives a path whose file cannot be
\* opened leaves vertex_buffers, batch_number and rx as they were, and the
\* application keeps running.
C11_OpenFailureKeepsSession ==
    [][ (/\ cpc = "path" /\ ~drawing_mode /\ path_rx = "Some"
         /\ path_q # <<>> /\ OpenFails(Head(path_q))
         /\ path_q' # path_q) =>
            /\ vertex_buffers' = vertex_buffers
            /\ batch_number' = batch_number
            /\ rx' = rx
            /\ cpc' # "panicked"
      ]_vars

(* ---------------------------------------------------------------------- *)
(* C12                                                                     *)
(* ---------------------------------------------------------------------- *)
\* C12: a Render whose resource allocation fails leaves the colour, slice and
\* processed rasters unchanged, does not enter drawing mode, and the
\* application keeps running in the 3D view.
C12_FailedRenderLeavesState ==
    [][ (cpc = "render" /\ cutaway_queued /\ gpu' \in GpuFailures /\ cpc' # cpc) =>
            /\ cutaway_image' = cutaway_image
            /\ cutaway_slice_image' = cutaway_slice_image
            /\ cutaway_slice_processed_image' = cutaway_slice_processed_image
            /\ drawing_mode' = drawing_mode
            /\ cpc' # "panicked"
      ]_vars

(* ---------------------------------------------------------------------- *)
(* C20                                                                     *)
(* ---------------------------------------------------------------------- *)
\* what a load of a file whose record good + 1 is malformed must amount to:
\* the batches of a reader that ends cleanly after the good records
CleanTwin(s) ==
    CleanRun(loader[s].file.good, loader[s].n, BATCH_SIZE, 0, <<>>, <<>>)

Malformed(s) == Started(s) /\ loader[s].file.good < loader[s].file.declared

\* C20: a load of a file with a malformed record never fails: its producer
\* does not panic, what it has sent is at every moment a prefix of what a
\* reader ending cleanly just before that record would have it send, it is
\* exactly that once the producer has left its loop, and the consumer's
\* chunks at the end of the load are the conversions of exactly those batches.
C20_MalformedEndsLikeCleanEnd ==
    \A s \in Loaders :
        Malformed(s) =>
            /\ loader[s].pc # "panicked"
            /\ IsPrefix(emitted[s], CleanTwin(s))
            /\ Terminated(s) => emitted[s] = CleanTwin(s)
            /\ (EndOfLoadSeen /\ session = s /\ Running) =>
                   vertex_buffers = [k \in 1..Len(CleanTwin(s)) |->
                                        ConvertBatch(CleanTwin(s)[k])]

C20_Witness ==
    \E s \in Loaders :
        /\ Malformed(s)
        /\ loader[s].file.good >= BATCH_SIZE
        /\ loader[s].file.good % BATCH_SIZE # 0
        /\ loader[s].pc = "done"
        /\ EndOfLoadSeen /\ session = s
        /\ Len(vertex_buffers) >= 1

(* ---------------------------------------------------------------------- *)
(* C14                                                                     *)
(* ---------------------------------------------------------------------- *)
Adjacent(p, q) ==
    \/ p[1] = q[1] /\ (p[2] - q[2] = 1 \/ q[2] - p[2] = 1)
    \/ p[2] = q[2] /\ (p[1] - q[1] = 1 \/ q[1] - p[1] = 1)

\* the pixels reachable from the set region by steps between 4-adjacent
\* pixels of the colour colour
RECURSIVE Grow(_, _, _)
Grow(img, colour, region) ==
    LET more == { q \in DOMAIN img.px \ region :
                    /\ img.px[q] = colour
                    /\ \E p \in region : Adjacent(p, q) }
    IN  IF more = {} THEN region ELSE Grow(img, colour, region \cup more)

\* the 4-connected region of uniform colour that holds the pixel start
Region(img, start) == Grow(img, img.px[start], {start})

Recoloured(img, region, colour) ==
    [img EXCEPT !.px = [q \in DOMAIN img.px |->
                           IF q \in region THEN colour ELSE img.px[q]]]

\* a frame in which RoomIdentification starts a fill
FillFrame ==
    /\ cpc = "path" /\ cpc' = "path"
    /\ active_tool' = "RoomIdentification"
    /\ left_pressed(mouse) \/ right_pressed(mouse)
    /\ mouse' = MouseOnNewFrame(mouse)

\* C14: a fill started on a pixel that is not outline black recolours exactly
\* the pixels of the 4-connected region of uniform colour around that pixel
\* to the target colour and changes no other pixel.
C14_FillsExactlyTheRegion ==
    [][ (FillFrame
         /\ get_pixel(cutaway_slice_processed_image,
                      AsU32(mouse.position)[1], AsU32(mouse.position)[2]) # Black) =>
            cutaway_slice_processed_image' =
                Recoloured(cutaway_slice_processed_image,
                           Region(cutaway_slice_processed_image, AsU32(mouse.position)),
                           TargetColour(mouse))
      ]_vars

\* the boxed raster after a right press on the pixel inside the box
C14_Witness ==
    /\ cutaway_slice_processed_image = Boxed(BoxW, BoxH, Red, White)
    /\ mouse.position = Pos(BoxCentre(BoxW, BoxH)[1], BoxCentre(BoxW, BoxH)[2])
    /\ fills = 1

(* ---------------------------------------------------------------------- *)
(* C15                                                                     *)
(* ---------------------------------------------------------------------- *)
BlackPixels(img) == { q \in DOMAIN img.px : img.px[q] = Black }

\* C15: a frame in which a fill is started, from whatever pixel, leaves the
\* set of outline-black pixels as it was.
C15_FillKeepsBlack ==
    [][ FillFrame =>
            BlackPixels(cutaway_slice_processed_image') =
                BlackPixels(cutaway_slice_processed_image)
      ]_vars

\* the boxed raster after a left press outside the box: the fill went round
\* the border of the box
C15_Witness ==
    /\ cutaway_slice_processed_image = Boxed(BoxW, BoxH, White, Blue)
    /\ fills = 1

(* ---------------------------------------------------------------------- *)
(* C13                                                                     *)
(* ---------------------------------------------------------------------- *)
\* a frame in which the tool is applied along a stroke
StrokeFrame(tool) ==
    /\ cpc = "path"
    /\ drawing_mode
    /\ active_tool = tool /\ active_tool' = tool
    /\ is_pressed(mouse, "Left") \/ is_pressed(mouse, "Right")
    /\ cpc' # cpc \/ mouse' = MouseOnNewFrame(mouse)

\* C13: a frame in which the Pencil or the Eraser is applied along a stroke,
\* wherever the pointer was and is, does not fault.
C13_StrokesNeverFault ==
    [][ (StrokeFrame("Pencil") \/ StrokeFrame("Eraser")) => cpc' # "panicked" ]_vars

(* ---------------------------------------------------------------------- *)
(* C16                                                                     *)
(* ---------------------------------------------------------------------- *)
\* the pixels of the raster within distance EraserRadius of a pixel of path
ClosedDisks(img, path) ==
    { c \in DOMAIN img.px :
        \E i \in 1 .. Len(path) :
            (c[1] - path[i][1]) * (c[1] - path[i][1])
                + (c[2] - path[i][2]) * (c[2] - path[i][2])
            <= EraserRadius * EraserRadius }

\* C16: an Eraser frame that completes sets every pixel of the raster within
\* distance 5 of a pixel of the stroke path to transparent white and changes
\* no other pixel.
C16_ErasesClosedDisks ==
    [][ (StrokeFrame("Eraser") /\ cpc' = "path") =>
            cutaway_slice_processed_image' =
                Recoloured(cutaway_slice_processed_image,
                           ClosedDisks(cutaway_slice_processed_image, StrokePath(mouse)),
                           White)
      ]_vars

(* ---------------------------------------------------------------------- *)
(* C17                                                                     *)
(* ---------------------------------------------------------------------- *)
\* a pixel that has an erased pixel to its left, to its right, above it and
\* below it; a pixel enclosed by erased pixels is one of these
Hemmed(img, p) ==
    /\ \E x \in 0 .. p[1] - 1 : img.px[<< x, p[2] >>] = White
    /\ \E x \in p[1] + 1 .. img.width - 1 : img.px[<< x, p[2] >>] = White
    /\ \E y \in 0 .. p[2] - 1 : img.px[<< p[1], y >>] = White
    /\ \E y \in p[2] + 1 .. img.height - 1 : img.px[<< p[1], y >>] = White

\* C17: after the Eraser has been applied along a stroke on a black raster, no
\* pixel that is still black has erased pixels on all four sides, so none is
\* enclosed by erased pixels.
C17_NoGaps ==
    (active_tool = "Eraser" /\ drawing_mode /\ cpc = "path") =>
        \A p \in DOMAIN cutaway_slice_processed_image.px :
            cutaway_slice_processed_image.px[p] = Black =>
                ~Hemmed(cutaway_slice_processed_image, p)

\* a slanted stroke of seven pixels has been erased
C17_Witness ==
    /\ active_tool = "Eraser"
    /\ cpc = "path"
    /\ mouse.new_frame
    /\ mouse.last_position = Pos(5, 7)
    /\ mouse.position = Pos(11, 5)
    /\ cutaway_slice_processed_image.px[<< 8, 6 >>] = White
    /\ cutaway_slice_processed_image.px[<< 0, 0 >>] = Black

(* ---------------------------------------------------------------------- *)
(* C19                                                                     *)
(* ---------------------------------------------------------------------- *)
\* every button is Pressed or Released: a frame has run since the last
\* button event
Settled == \A b \in Buttons : mouse.state[b] \in {"Pressed", "Released"}

\* C19: with RoomIdentification active, once a frame has run after the last
\* button event, as many fills have been started as buttons have been pressed:
\* each press causes exactly one fill.
C19_EachPressFillsOnce ==
    (active_tool = "RoomIdentification" /\ cpc = "path" /\ Settled) =>
        fills = presses

(* ---------------------------------------------------------------------- *)
(* C18                                                                     *)
(* ---------------------------------------------------------------------- *)
\* the slice raster with every segment stamped that runs from a point of from
\* to a boundary point of the slice raster nearer than radius, whatever the
\* order of the stamping
LinkedBy(slice, from, radius) ==
    LET boundary == { b \in DOMAIN slice.px : IsBoundary(slice.px[b]) }
        linked   == { pc \in from \X boundary :
                        (pc[2][1] - pc[1][1]) * (pc[2][1] - pc[1][1])
                            + (pc[2][2] - pc[1][2]) * (pc[2][2] - pc[1][2])
                        < radius * radius }
        stamped  == UNION { Segment(pc[1], pc[2]) : pc \in linked }
    IN  [slice EXCEPT !.px = [q \in DOMAIN slice.px |->
                                 IF q \in stamped THEN Black ELSE slice.px[q]]]

\* C18: in whatever order the boundary points are processed, the working
\* raster is the slice raster stamped for the set of points processed so far,
\* and the raster adopted at the end is determined by the slice raster and the
\* radius alone.
C18_LinkIsOrderFree ==
    /\ cpc = "link" =>
           linker.image = LinkedBy(cutaway_slice_image,
                                   linker.points \ linker.todo, linker.radius)
    /\ (cpc = "path" /\ drawing_mode) =>
           cutaway_slice_processed_image =
               LinkedBy(cutaway_slice_image,
                        { b \in DOMAIN cutaway_slice_image.px :
                            IsBoundary(cutaway_slice_image.px[b]) },
                        linker.radius)

\* two boundary points in different rows have been linked, in either order
C18_Witness ==
    /\ cpc = "path"
    /\ drawing_mode
    /\ \E p \in linker.points, c \in linker.points :
         /\ p[2] # c[2]
         /\ p[1] + 3 < c[1]
         /\ \A q \in Segment(p, c) : cutaway_slice_processed_image.px[q] = Black

(* ---------------------------------------------------------------------- *)
(* C21                                                                     *)
(* ---------------------------------------------------------------------- *)
\* the colour of the pixel under the pointer
StartColour ==
    get_pixel(cutaway_slice_processed_image,
              AsU32(mouse.position)[1], AsU32(mouse.position)[2])

\* C21: a frame in which a fill is started on a pixel that is outline black,
\* or that already has the target colour, leaves every pixel of the raster
\* as it was.
C21_GuardedFillIsNoOp ==
    [][ (FillFrame /\ (StartColour = Black \/ StartColour = TargetColour(mouse))) =>
            cutaway_slice_processed_image' = cutaway_slice_processed_image
      ]_vars

\* the boxed raster after a left press on the blue pixel inside the box
C21_Witness ==
    /\ cutaway_slice_processed_image = Boxed(BoxW, BoxH, Blue, White)
    /\ mouse.position = Pos(BoxCentre(BoxW, BoxH)[1], BoxCentre(BoxW, BoxH)[2])
    /\ mouse.state["Left"] = "Pressed"
    /\ fills = 1

(* ---------------------------------------------------------------------- *)
(* C22                                                                     *)
(* ---------------------------------------------------------------------- *)
NoRepeats(s) == \A i, j \in 1 .. Len(s) : s[i] = s[j] => i = j

\* C22: a fill that is started runs until its work stack is empty, recolours
\* no pixel twice and pushes at most 4 entries for each pixel it recolours.
C22_FillWorkIsBounded ==
    [][ (FillFrame /\ CanFill(StartColour, TargetColour(mouse))) =>
            LET f == FloodFill(cutaway_slice_processed_image,
                               AsU32(mouse.position), TargetColour(mouse))
            IN  /\ f.image = cutaway_slice_processed_image'
                /\ NoRepeats(f.recoloured)
                /\ Len(f.pushed) <= 4 * Len(f.recoloured)
                /\ Len(f.recoloured) <= Cardinality(DOMAIN cutaway_slice_processed_image.px)
      ]_vars

\* the blank raster after a left press: every pixel was recoloured
C22_Witness ==
    /\ cutaway_slice_processed_image = Blank(FillW, FillH, Blue)
    /\ fills = 1

(* ---------------------------------------------------------------------- *)
(* C28                                                                     *)
(* ---------------------------------------------------------------------- *)
ThinLen == 4

\* the rasters that are one pixel wide or one pixel high
ThinRasters ==
    Rasters(1, ThinLen, {Black, White}) \cup Rasters(ThinLen, 1, {Black, White})

\* the rasters on which the accesses of the fill are examined
AccessRasters ==
    ThinRasters \cup { Boxed(BoxW, BoxH, inner, outer) :
                         inner \in {White, Blue}, outer \in {White, Red} }

\* a button has just been pressed over a pixel of such a raster
InitAccessFill ==
    \E img \in AccessRasters, b \in Buttons :
        \E p \in DOMAIN img.px :
            /\ InDrawingMode(img,
                   MouseUpdate(MouseUpdatePosition(NewMouse, Pos(p[1], p[2])), b, TRUE),
                   "RoomIdentification")
            /\ presses = 1
            /\ fills = 0

\* the fills and the linking runs whose pixel accesses are examined
InitAccess == InitAccessFill \/ InitLink

NextAccess ==
    \/ DrawFrame("none")
    \/ NextLink

SpecAccess == InitAccess /\ [][NextAccess]_vars

AllInBounds(img, points) ==
    \A i \in 1 .. Len(points) : InBounds(img, points[i][1], points[i][2])

\* C28: a fill started on a pixel of the raster pushes and recolours only
\* pixels of the raster, and every pixel the linker stamps on the segment from
\* a boundary point to a boundary point near it is a pixel of the raster.
C28_AccessesStayInBounds ==
    [][ /\ (FillFrame /\ CanFill(StartColour, TargetColour(mouse))) =>
              LET f == FloodFill(cutaway_slice_processed_image,
                                 AsU32(mouse.position), TargetColour(mouse))
              IN  /\ AllInBounds(cutaway_slice_processed_image, f.pushed)
                  /\ AllInBounds(cutaway_slice_processed_image, f.recoloured)
        /\ \A p \in Pixels(LinkW, LinkH) :
              LinkPoint(p) =>
                  \A c \in WithinRadius(KdTree(linker), p, linker.radius) :
                      /\ c \in DOMAIN linker.image.px
                      /\ Segment(p, c) \subseteq DOMAIN linker.image.px
      ]_vars

\* the one-pixel-wide blank raster after a right press: the fill ran along
\* the whole column
C28_Witness ==
    /\ fills = 1
    /\ cutaway_slice_processed_image = Blank(1, ThinLen, Red)

(* ---------------------------------------------------------------------- *)
(* C23                                                                     *)
(* ---------------------------------------------------------------------- *)
\* no boundary point other than p is returned by the radius query around p
Lone(p) == WithinRadius(KdTree(linker), p, linker.radius) \ {p} = {}

\* C23 (as stated): the round of a boundary point that has no other boundary
\* point within the radius leaves the working raster unchanged.
C23_LonePointIsNoOp ==
    [][ \A p \in Pixels(LinkW, LinkH) :
            (LinkPoint(p) /\ Lone(p)) => linker'.image = linker.image
      ]_vars

\* C23 (amended): the round of a boundary point that has no other boundary
\* point within the radius stamps that point's own pixel outline black and
\* changes no other pixel.
C23_LonePointStampsItself ==
    [][ \A p \in Pixels(LinkW, LinkH) :
            (LinkPoint(p) /\ Lone(p)) =>
                linker'.image = put_pixel(linker.image, p[1], p[2], Black)
      ]_vars

\* two boundary points out of each other's reach, both linked
C23_Witness ==
    /\ cpc = "link"
    /\ linker.todo = {}
    /\ Cardinality(linker.points) = 2
    /\ \A p \in linker.points : Lone(p) /\ linker.image.px[p] = Black

(* ---------------------------------------------------------------------- *)
(* C24                                                                     *)
(* ---------------------------------------------------------------------- *)
\* the pixels of the segments from a boundary point to a boundary point that
\* the radius query around the former returns
Links ==
    UNION { UNION { Segment(p, c) :
                      c \in WithinRadius(linker.points, p, linker.radius) } :
              p \in linker.points }

\* C24: the boundary points are exactly the pixels of the slice raster whose
\* alpha is above 128, and in the raster adopted after linking a pixel is
\* outline black if it lies on the segment from a boundary point to a boundary
\* point returned by the radius query around it, and has its slice value
\* otherwise.
C24_StampedIffOnSegment ==
    /\ cpc = "link" =>
           \A q \in DOMAIN cutaway_slice_image.px :
               q \in linker.points <=> cutaway_slice_image.px[q][4] > 128
    /\ (cpc = "path" /\ drawing_mode) =>
           /\ DOMAIN cutaway_slice_processed_image.px = DOMAIN cutaway_slice_image.px
           /\ LET links == Links
              IN  \A q \in DOMAIN cutaway_slice_image.px :
                      /\ q \in links => cutaway_slice_processed_image.px[q] = Black
                      /\ q \notin links =>
                             /\ cutaway_slice_processed_image.px[q] =
                                    cutaway_slice_image.px[q]
                             /\ cutaway_slice_processed_image.px[q] # Black

\* after linking, a pixel between two boundary points is outline black and a
\* pixel of alpha 128 off every segment has kept its value
C24_Witness ==
    /\ cpc = "path"
    /\ drawing_mode
    /\ \E q \in DOMAIN cutaway_slice_image.px :
           /\ q \notin linker.points
           /\ cutaway_slice_processed_image.px[q] = Black
    /\ \E q \in DOMAIN cutaway_slice_image.px :
           cutaway_slice_processed_image.px[q] = Faint

(* ---------------------------------------------------------------------- *)
(* C25                                                                     *)
(* ---------------------------------------------------------------------- *)
\* C25 (as stated): in the raster adopted after linking, every pixel that the
\* linker did not stamp equals the pixel at the same coordinates of the colour
\* raster.
C25_SegmentedFromColour ==
    (cpc = "path" /\ drawing_mode) =>
        LET links == Links
        IN  \A q \in DOMAIN cutaway_slice_processed_image.px \ links :
                cutaway_slice_processed_image.px[q] = cutaway_image.px[q]

\* C25 (amended): the raster adopted after linking has the dimensions of the
\* colour raster, and every pixel of it that the linker did not stamp equals
\* the pixel at the same coordinates of the slice raster.
C25_SegmentedFromSlice ==
    (cpc = "path" /\ drawing_mode) =>
        /\ cutaway_slice_processed_image.width = cutaway_image.width
        /\ cutaway_slice_processed_image.height = cutaway_image.height
        /\ LET links == Links
           IN  \A q \in DOMAIN cutaway_slice_processed_image.px \ links :
                   cutaway_slice_processed_image.px[q] = cutaway_slice_image.px[q]

\* after linking, a pixel off every segment has its slice value where the
\* colour raster has the clear colour, and a boundary pixel is outline black
\* where the colour raster has a point
C25_Witness ==
    /\ cpc = "path"
    /\ drawing_mode
    /\ \E q \in DOMAIN cutaway_slice_processed_image.px :
           /\ q \notin Links
           /\ cutaway_slice_processed_image.px[q] = Faint
           /\ cutaway_image.px[q] = Sky
    /\ \E q \in linker.points :
           /\ cutaway_slice_processed_image.px[q] = Black
           /\ cutaway_image.px[q] = Shaded

(* ---------------------------------------------------------------------- *)
(* C26                                                                     *)
(* ---------------------------------------------------------------------- *)
RastersAbsent ==
    /\ cutaway_image = "None"
    /\ cutaway_slice_image = "None"
    /\ cutaway_slice_processed_image = "None"

RastersPresent ==
    /\ cutaway_image # "None"
    /\ cutaway_slice_image # "None"
    /\ cutaway_slice_processed_image # "None"

Received(s) == Len(emitted[s]) - Len(chan[s])

\* a step of the event loop that takes a path and starts a load session
SessionStart ==
    /\ cpc = "path" /\ cpc' = "batch"
    /\ Len(path_q') < Len(path_q)

\* C27: while a load is in progress the progress counter equals the number of
\* batches received from the current session's loader and the number of
\* chunks; a step that receives a batch adds one chunk and one to the counter;
\* a step that starts a session leaves the counter at 0 and no chunk.
C27_CounterCountsChunks ==
    /\ [](/\ rx # 0 <=> batch_number >= 0
          /\ rx # 0 =>
               /\ rx = session
               /\ batch_number = Received(rx)
               /\ batch_number = Len(vertex_buffers))
    /\ [][ (rx # 0 /\ rx' = rx /\ Len(chan'[rx]) < Len(chan[rx])) =>
               /\ vertex_buffers' = Append(vertex_buffers, vertex_buffers'[Len(vertex_buffers')])
               /\ batch_number' = batch_number + 1
         ]_vars
    /\ [][ SessionStart =>
               /\ rx' = session'
               /\ batch_number' = 0
               /\ vertex_buffers' = << >>
               /\ Len(emitted'[rx']) - Len(chan'[rx']) = 0
         ]_vars

\* a session started from the file dialog has received two batches
C27_Witness ==
    /\ rx # 0
    /\ path_rx = "Some"
    /\ batch_number = 2
    /\ Len(vertex_buffers) = 2

(* ---------------------------------------------------------------------- *)
(* C29                                                                     *)
(* ---------------------------------------------------------------------- *)
\* the loader thread of s has been spawned and has not ended
Alive(s) == loader[s].pc \in {"read", "chk_full", "chk_limit", "exit"}

C30_DrawingModeAfterLoading ==
    /\ cutaway_queued => (rx = 0 /\ batch_number = -1)
    /\ drawing_mode =>
           /\ rx = 0
           /\ batch_number = -1
           /\ \A s \in Loaders : ~Alive(s)

\* drawing mode was entered after a load that delivered a batch
C30_Witness ==
    /\ drawing_mode
    /\ cpc = "path"
    /\ rx = 0
    /\ vertex_buffers # << >>

(* ---------------------------------------------------------------------- *)
(* C31                                                                     *)
(* ---------------------------------------------------------------------- *)
\* the denominator of the progress bar: (total_points / BATCH_SIZE + 1)
TotalBatches == total_points \div BATCH_SIZE + 1

\* C31: while a load is in progress, the number of batches loaded is at least
\* 0 and at most total_points / BATCH_SIZE + 1, so the progress fraction lies
\* in [0, 1].
C31_ProgressWithinUnit ==
    batch_number >= 0 => batch_number <= TotalBatches

(* ---------------------------------------------------------------------- *)
(* C32                                                                     *)
(* ---------------------------------------------------------------------- *)
\* the event loop keeps iterating and every spawned loader thread keeps
\* being scheduled
Fairness ==
    /\ WF_vars(MainStep)
    /\ \A s \in Loaders : WF_vars(LoaderStep(s))

SpecLive == Init /\ [][Next]_vars /\ Fairness

\* the event loop has seen the disconnect of the current session after
\* receiving every batch its loader sent
LoadCompleted ==
    /\ rx = 0
    /\ batch_number = -1
    /\ session # 0
    /\ chan[session] = << >>
    /\ Len(vertex_buffers) = Len(emitted[session])

PenW == 4
PenH == 2

\* where the pointer goes: three pixels of the raster away from its origin
PenPointers(w, h) == { Pos(w - 1, 0), Pos(w - 1, h - 1), Pos(1, h - 1) }

\* Pencil is active on a blank raster; no button and no pointer event yet
InitPen ==
    /\ InDrawingMode(Blank(PenW, PenH, White), NewMouse, "Pencil")
    /\ presses = 0
    /\ fills = 0

NextPen ==
    \/ \E b \in Buttons, pressed \in BOOLEAN : MouseInput(b, pressed)
    \/ \E p \in PenPointers(PenW, PenH) : CursorMoved(p)
    \/ DrawFrame("none")

SpecPen == InitPen /\ [][NextPen]_vars

\* a frame in which the Pencil draws although no pointer event has arrived
\* since the previous frame
StationaryPencilFrame ==
    /\ StrokeFrame("Pencil")
    /\ cpc' = "path"
    /\ mouse' = MouseOnNewFrame(mouse)
    /\ is_pressed(mouse, "Left") \/ is_pressed(mouse, "Right")
    /\ mouse.new_frame

\* C33: a frame of the Pencil with a button held and the pointer where it was
\* at the previous frame changes no pixel other than the one under the
\* pointer.
C33_StationaryPressDrawsOnePixel ==
    [][ StationaryPencilFrame =>
            \A q \in DOMAIN cutaway_slice_processed_image.px :
                q # AsI32(mouse.position) =>
                    cutaway_slice_processed_image'.px[q] =
                        cutaway_slice_processed_image.px[q]
      ]_vars

====
